---- MODULE Spec2Model ----
(***************************************************************************)
(* A model of chat_downloader/cli.py: the console script main().          *)
(*                                                                         *)
(* Three specifications share the variables below.                        *)
(*   Spec      one run of main(): flag synthesis for the two debug        *)
(*             actions, parse_args, mode resolution, construction of the  *)
(*             downloader, get_chat, the message loop with its sinks,     *)
(*             the except clauses and the finally block.                   *)
(*   SpecMode  the mode-resolution block (lines 193-205) applied to every *)
(*             combination of raw flags, and applied again to its result. *)
(*   SpecInfo  get_info (lines 53-65) applied to bounded functions and    *)
(*             docstrings.                                                 *)
(* The collaborators (ChatDownloader, the chat object, ContinuousWriter,  *)
(* log) are not part of cli.py; each call of one is modelled at its call  *)
(* site with every outcome the call can have: a normal return or any      *)
(* exception kind of RaisedKinds.                                          *)
(***************************************************************************)
EXTENDS Integers, Sequences, FiniteSets, TLC

\* ------------------------------------------------------------- bounds
\* the longest message stream a session yields
MaxMsgs == 3
\* how many times SpecMode applies the mode-resolution block
MaxResolves == 2
\* how many parameter names SpecInfo draws functions and docstrings over
MaxParams == 3

\* ------------------------------------------------------------- values
\* Python's None
None == "None"

\* choices of --logging (line 172)
Levels == {"none", "debug", "info", "warning", "error", "critical"}

\* the defaults get_chat may declare for its logging parameter: one that
\* disables the logger at line 202 and one that does not
DefaultLevels == {"none", "info"}

\* Python truthiness of a path or None: bool(None) and bool('') are False
Truthy(v) == v \notin {None, ""}

\* the classes of the first except clause (lines 257-267)
TaxonomyErrors ==
    {"URLNotProvided", "SiteNotSupported", "LoginRequired", "VideoUnavailable",
     "NoChatReplay", "VideoUnplayable", "InvalidParameter", "InvalidURL",
     "RetriesExceeded"}

\* every exception kind a collaborator call raises in the model: the imported
\* kinds (lines 6-9, 24-36), KeyboardInterrupt, and ValueError standing for
\* any exception that no except clause names
RaisedKinds ==
    TaxonomyErrors \cup
    {"NoContinuation", "ConnectionError", "RequestException",
     "TimeoutException", "KeyboardInterrupt", "ValueError"}

\* the classes an exception of kind k is an instance of:
\* requests.exceptions.ConnectionError derives from RequestException
ClassesOf(k) ==
    IF k = "ConnectionError" THEN {"ConnectionError", "RequestException"} ELSE {k}

\* the except clauses with RequestException placed before ConnectionError
ExceptClausesSwapped ==
    << [classes |-> TaxonomyErrors,        level |-> "error", msg |-> "{}", arg |-> TRUE],
       [classes |-> {"NoContinuation"},    level |-> "info",  msg |-> "{}", arg |-> TRUE],
       [classes |-> {"RequestException"},  level |-> "error", msg |-> "{}", arg |-> TRUE],
       [classes |-> {"ConnectionError"},   level |-> "error", msg |-> "Unable to establish a connection. {}", arg |-> TRUE],
       [classes |-> {"TimeoutException"},  level |-> "info",  msg |-> "{}", arg |-> TRUE],
       [classes |-> {"KeyboardInterrupt"}, level |-> "error", msg |-> "Keyboard Interrupt", arg |-> FALSE] >>

\* the except clauses replaced by one clause that catches everything
ExceptClausesCatchAll ==
    << [classes |-> RaisedKinds, level |-> "error", msg |-> "{}", arg |-> TRUE] >>

\* the except clauses of main() in source order (lines 257-285): the classes
\* each names, and the log call its body makes (arg: the exception is
\* formatted into the line)
ExceptClauses ==
    << [classes |-> TaxonomyErrors,        level |-> "error", msg |-> "{}", arg |-> TRUE],
       [classes |-> {"NoContinuation"},    level |-> "info",  msg |-> "{}", arg |-> TRUE],
       [classes |-> {"ConnectionError"},   level |-> "error", msg |-> "Unable to establish a connection. {}", arg |-> TRUE],
       [classes |-> {"RequestException"},  level |-> "error", msg |-> "{}", arg |-> TRUE],
       [classes |-> {"TimeoutException"},  level |-> "info",  msg |-> "{}", arg |-> TRUE],
       [classes |-> {"KeyboardInterrupt"}, level |-> "error", msg |-> "Keyboard Interrupt", arg |-> FALSE] >>

\* the indexes of the clauses that match kind k
Matching(k) ==
    {i \in 1..Len(ExceptClauses) : ExceptClauses[i].classes \cap ClassesOf(k) # {}}

\* Python runs the first matching clause; 0 when none matches
HandlerOf(k) ==
    IF Matching(k) = {} THEN 0
    ELSE CHOOSE i \in Matching(k) : \A j \in Matching(k) : i <= j

\* the log entry a clause's body writes for exception kind k
HandlerLog(i, k) ==
    [level |-> ExceptClauses[i].level,
     msg   |-> <<ExceptClauses[i].msg, IF ExceptClauses[i].arg THEN k ELSE "">>]

\* chat.format(item): the formatted text of a message
Format(m) == <<"formatted", m>>

\* the record ContinuousWriter persists for a message
Record(m) == <<"record", m>>

\* a call log(level, text.format(arg)) as an entry of the log
LogEntry(level, text, arg) == [level |-> level, msg |-> <<text, arg>>]

\* ------------------------------------------------- add_param, parse_args
\* the names of get_chat's parameters the model follows
ChatKeys == {"pause_on_debug", "exit_on_debug", "logging"}

\* str(not bool(default)).lower() for default = kwargs.pop('default', None):
\* the keyword arguments of the call, not the introspected default
NotBoolDefault(kwargs) ==
    IF "default" \in DOMAIN kwargs THEN ~kwargs["default"] ELSE TRUE

\* add_param: the definition group.add_argument receives for keys[0]
add_param(info, key, kwargs) ==
    LET is_boolean_flag ==
            IF "is_boolean_flag" \in DOMAIN kwargs THEN kwargs["is_boolean_flag"] ELSE FALSE
    IN  [action  |-> IF is_boolean_flag
                     THEN (IF NotBoolDefault(kwargs) THEN "store_true" ELSE "store_false")
                     ELSE "store",
         default |-> info[key].default,
         help    |-> info[key].help]

\* the keyword arguments of the two calls at lines 167-168
BooleanFlagKwargs == [k \in {"is_boolean_flag"} |-> TRUE]

\* argparse: what a store_true / store_false flag stores
ParseFlag(flag, present) ==
    IF present THEN flag.action = "store_true" ELSE flag.default

\* the command lines of the model: which flags are present, and the values of
\* --logging and --output
CommandLines ==
    [pause_on_debug : BOOLEAN, exit_on_debug : BOOLEAN,
     logging : Levels \cup {None},
     testing : BOOLEAN, verbose : BOOLEAN, quiet : BOOLEAN,
     output : {None, "", "out.json"}]

\* how many of the four options of debug_options (lines 170-179) are present
DebugOptionCount(argv) ==
    (IF argv.logging # None THEN 1 ELSE 0) + (IF argv.testing THEN 1 ELSE 0)
    + (IF argv.verbose THEN 1 ELSE 0) + (IF argv.quiet THEN 1 ELSE 0)

\* parse_args accepts a command line unless two flags of one mutually
\* exclusive group are present (lines 166, 170)
Accepted(argv) ==
    /\ ~(argv.pause_on_debug /\ argv.exit_on_debug)
    /\ DebugOptionCount(argv) <= 1

\* the namespace parse_args returns
parse_args(flagdefs, info, argv) ==
    [pause_on_debug |-> ParseFlag(flagdefs.pause_on_debug, argv.pause_on_debug),
     exit_on_debug  |-> ParseFlag(flagdefs.exit_on_debug, argv.exit_on_debug),
     logging        |-> IF argv.logging # None THEN argv.logging ELSE info.logging.default,
     testing        |-> argv.testing,
     verbose        |-> argv.verbose,
     quiet          |-> argv.quiet,
     output         |-> argv.output]

\* ------------------------------------------------------ mode resolution
\* lines 193-200 without the assignment of line 195
ResolveArgsNoPause(a) ==
    IF a.testing \/ a.verbose THEN [a EXCEPT !.logging = "debug"] ELSE a

\* lines 193-200: the testing rule, then the verbose rule
ResolveArgs(a) ==
    LET t == IF a.testing
             THEN [a EXCEPT !.logging = "debug", !.pause_on_debug = TRUE]
             ELSE a
    IN  IF t.verbose THEN [t EXCEPT !.logging = "debug"] ELSE t

\* lines 202-205: the logger is disabled, or its level is set
ConfigureLogger(lg, a) ==
    IF a.quiet \/ a.logging = "none"
    THEN [lg EXCEPT !.disabled = TRUE]
    ELSE [lg EXCEPT !.level = a.logging]

\* the logger before main() configures it
FreshLogger == [disabled |-> FALSE, level |-> "unset"]

\* lines 207-210: the parameters forwarded to get_chat
ChatParams(a) == [k \in ChatKeys |-> a[k]]

\* ------------------------------------------------------------- get_info
\* lines 53-65: one entry per parameter of the docstring; the default is
\* args.get(name), None when the function declares none
get_info(defaults, docparams) ==
    [n \in DOMAIN docparams |->
        [help    |-> docparams[n],
         default |-> IF n \in DOMAIN defaults THEN defaults[n] ELSE None]]

\* ------------------------------------------------------------ the state
VARIABLES
    pc,             \* where main() is
    get_chat_info,  \* get_info(ChatDownloader.get_chat) for the keys of ChatKeys
    flagdefs,       \* the definitions add_param registered for the two debug actions
    argv,           \* the command line
    args,           \* the namespace parse_args returned, as main() has changed it
    resolves,       \* how many times the mode-resolution block has run
    logger,         \* get_logger(): disabled, level
    logs,           \* the calls of log(), in order
    chat_params,    \* the keyword arguments of get_chat
    downloader,     \* the ChatDownloader: whether it was constructed, and its close() count
    chat,           \* the chat get_chat returned: whether there is one, and its is_live
    output_file,    \* None or the ContinuousWriter
    sink,           \* the ContinuousWriter's file: its operations, buffer and persisted records
    console,        \* what safe_print has printed
    consumed,       \* the messages the for loop has taken from the chat
    exc,            \* the exception raised: its kind, the call that raised it, whether a clause caught it
    outcome,        \* how main() ended: "running", "returned", "raised", "exit"
    function,       \* SpecInfo: the function get_info is given
    docstring,      \* SpecInfo: its documented parameters
    info            \* SpecInfo: what get_info returned

vars == <<pc, get_chat_info, flagdefs, argv, args, resolves, logger, logs,
          chat_params, downloader, chat, output_file, sink, console, consumed,
          exc, outcome, function, docstring, info>>

\* the variables of the dispatch part of main() (lines 222-291)
runVars == <<logs, downloader, chat, output_file, sink, console, consumed, exc, outcome>>
\* the variables of the parsing part of main() (lines 41-215)
cliVars == <<get_chat_info, flagdefs, argv, args, resolves, logger, chat_params>>
\* the variables of SpecInfo
infoVars == <<function, docstring, info>>

NoException == [kind |-> None, at |-> None, caught |-> FALSE]
FreshSink == [ops |-> <<>>, buffered |-> <<>>, persisted |-> <<>>]
NoArgs == [pause_on_debug |-> FALSE, exit_on_debug |-> FALSE, logging |-> None,
           testing |-> FALSE, verbose |-> FALSE, quiet |-> FALSE, output |-> None]
NoCommandLine == [pause_on_debug |-> FALSE, exit_on_debug |-> FALSE, logging |-> None,
                  testing |-> FALSE, verbose |-> FALSE, quiet |-> FALSE, output |-> None]
NoChat == [acquired |-> FALSE, is_live |-> FALSE]
NoFlags == [pause_on_debug |-> [action |-> None, default |-> FALSE, help |-> None],
            exit_on_debug  |-> [action |-> None, default |-> FALSE, help |-> None]]

\* the state of the dispatch part before line 222
RunIdle ==
    /\ logs = <<>>
    /\ downloader = [built |-> FALSE, closes |-> 0]
    /\ chat = NoChat
    /\ output_file = None
    /\ sink = FreshSink
    /\ console = <<>>
    /\ consumed = <<>>
    /\ exc = NoException
    /\ outcome = "running"

InfoIdle ==
    /\ function = [params |-> {}, defaults |-> <<>>]
    /\ docstring = <<>>
    /\ info = <<>>

\* ------------------------------------------------------------------ Spec
\* The state when main() reaches line 167: get_chat_info holds what get_info
\* found for get_chat. get_chat's signature is not part of cli.py; its
\* defaults are drawn here, the two debug actions never both on by default.
Init ==
    /\ pc = "add_params"
    /\ \E p \in BOOLEAN, e \in BOOLEAN, l \in DefaultLevels :
          /\ ~(p /\ e)
          /\ get_chat_info =
                [pause_on_debug |-> [help |-> "pause", default |-> p],
                 exit_on_debug  |-> [help |-> "exit", default |-> e],
                 logging        |-> [help |-> "logging", default |-> l]]
    /\ flagdefs = NoFlags
    /\ argv = NoCommandLine
    /\ args = NoArgs
    /\ resolves = 0
    /\ logger = FreshLogger
    /\ chat_params = ChatParams(NoArgs)
    /\ RunIdle
    /\ InfoIdle

\* lines 166-168: the two boolean flags of the on_debug_options group
AddParams ==
    /\ pc = "add_params"
    /\ flagdefs' =
          [pause_on_debug |-> add_param(get_chat_info, "pause_on_debug", BooleanFlagKwargs),
           exit_on_debug  |-> add_param(get_chat_info, "exit_on_debug", BooleanFlagKwargs)]
    /\ pc' = "parse_args"
    /\ UNCHANGED <<get_chat_info, argv, args, resolves, logger, chat_params>>
    /\ UNCHANGED runVars
    /\ UNCHANGED infoVars

\* line 191, a command line the parser accepts
ParseArgs ==
    /\ pc = "parse_args"
    /\ \E cl \in CommandLines :
          /\ Accepted(cl)
          /\ argv' = cl
          /\ args' = parse_args(flagdefs, get_chat_info, cl)
    /\ pc' = "resolve"
    /\ UNCHANGED <<get_chat_info, flagdefs, resolves, logger, chat_params>>
    /\ UNCHANGED runVars
    /\ UNCHANGED infoVars

\* line 191, a command line the parser rejects: parser.error exits the process
ParseReject ==
    /\ pc = "parse_args"
    /\ \E cl \in CommandLines :
          /\ ~Accepted(cl)
          /\ argv' = cl
    /\ pc' = "done"
    /\ outcome' = "exit"
    /\ UNCHANGED <<get_chat_info, flagdefs, args, resolves, logger, chat_params>>
    /\ UNCHANGED <<logs, downloader, chat, output_file, sink, console, consumed, exc>>
    /\ UNCHANGED infoVars

\* lines 193-220: mode resolution, the two parameter bundles, the debug lines
ResolveMode ==
    /\ pc = "resolve"
    /\ args' = ResolveArgs(args)
    /\ logger' = ConfigureLogger(logger, ResolveArgs(args))
    /\ resolves' = resolves + 1
    /\ chat_params' = ChatParams(ResolveArgs(args))
    /\ logs' = logs \o << LogEntry("debug", "Python version: {}", "version"),
                          LogEntry("debug", "Program version: {}", "version"),
                          LogEntry("debug", "Initialisation parameters: {}", "init_params") >>
    /\ pc' = "construct"
    /\ UNCHANGED <<get_chat_info, flagdefs, argv>>
    /\ UNCHANGED <<downloader, chat, output_file, sink, console, consumed, exc, outcome>>
    /\ UNCHANGED infoVars

\* ------------------------------------------------- the sinks, the callback
\* ContinuousWriter(path, ...): the file is opened
SinkOpen(s) == [s EXCEPT !.ops = Append(@, [op |-> "open", item |-> 0])]

\* ContinuousWriter.write(item, flush): the record is buffered, and a flush
\* moves the buffer to the file
SinkWrite(s, item, flush) ==
    [ops       |-> Append(s.ops, [op |-> "write", item |-> item]),
     buffered  |-> IF flush THEN <<>> ELSE Append(s.buffered, Record(item)),
     persisted |-> IF flush THEN s.persisted \o Append(s.buffered, Record(item))
                   ELSE s.persisted]

\* ContinuousWriter.close(): what is buffered is written, the file is closed
SinkClose(s) ==
    [ops       |-> Append(s.ops, [op |-> "close", item |-> 0]),
     buffered  |-> <<>>,
     persisted |-> s.persisted \o s.buffered]

\* line 245 without flush=True
write_to_file_unflushed(s, item) == SinkWrite(s, item, FALSE)

\* line 245: output_file.write(item, flush=True)
write_to_file(s, item) == SinkWrite(s, item, TRUE)

\* lines 243-247 with the call of print_formatted left out of write_to_file
callback_without_print(output) ==
    IF Truthy(output) THEN <<"write">> ELSE <<"print">>

\* lines 236-249: the steps of the callback chosen for a message:
\* write_to_file prints, then writes; print_formatted prints
callback(output) ==
    IF Truthy(output) THEN <<"print", "write">> ELSE <<"print">>

\* the step after step n of the callback: the next one, or back to the for loop
StepAfter(n, output) ==
    IF n < Len(callback(output)) THEN callback(output)[n + 1] ELSE "for"

\* line 290 without the test of output_file
closes_output_file_never(output, file) == FALSE

\* line 290: whether the finally block closes the output file
closes_output_file(output, file) == Truthy(output) /\ file # None

\* the loop variable of line 251
message == consumed[Len(consumed)]

\* a collaborator call raises an exception of kind k inside the try block
Raise(k, at) ==
    /\ exc' = [kind |-> k, at |-> at, caught |-> FALSE]
    /\ pc' = "except"

\* ------------------------------------------------ the dispatch (222-291)
\* line 222: ChatDownloader(**init_params), before the try block
Construct ==
    /\ pc = "construct"
    /\ \/ /\ downloader' = [downloader EXCEPT !.built = TRUE]
          /\ pc' = "get_chat"
          /\ UNCHANGED <<exc, outcome>>
       \/ \E k \in RaisedKinds :
             /\ exc' = [kind |-> k, at |-> "construct", caught |-> FALSE]
             /\ pc' = "done"
             /\ outcome' = "raised"
             /\ UNCHANGED downloader
    /\ UNCHANGED <<logs, chat, output_file, sink, console, consumed>>
    /\ UNCHANGED cliVars
    /\ UNCHANGED infoVars

\* lines 226-229: get_chat and the two lines logged about the chat
GetChat ==
    /\ pc = "get_chat"
    /\ \/ \E live \in BOOLEAN :
             /\ chat' = [acquired |-> TRUE, is_live |-> live]
             /\ logs' = logs \o << LogEntry("debug", "Chat information: {}", "chat"),
                                   LogEntry("info", "Retrieving chat for {}.", "title") >>
             /\ pc' = "open_sink"
             /\ UNCHANGED exc
       \/ \E k \in RaisedKinds :
             /\ Raise(k, "get_chat")
             /\ UNCHANGED <<chat, logs>>
    /\ UNCHANGED <<downloader, output_file, sink, console, consumed, outcome>>
    /\ UNCHANGED cliVars
    /\ UNCHANGED infoVars

\* lines 236-249: the durable sink is opened when args.output is set
OpenSink ==
    /\ pc = "open_sink"
    /\ \/ /\ Truthy(args.output)
          /\ \/ /\ output_file' = "ContinuousWriter"
                /\ sink' = SinkOpen(sink)
                /\ pc' = "for"
                /\ UNCHANGED exc
             \/ \E k \in RaisedKinds :
                   /\ Raise(k, "open")
                   /\ UNCHANGED <<output_file, sink>>
       \/ /\ ~Truthy(args.output)
          /\ pc' = "for"
          /\ UNCHANGED <<output_file, sink, exc>>
    /\ UNCHANGED <<logs, downloader, chat, console, consumed, outcome>>
    /\ UNCHANGED cliVars
    /\ UNCHANGED infoVars

\* line 251: the chat yields its next message, is exhausted, or raises
NextMessage ==
    /\ pc = "for"
    /\ \/ /\ Len(consumed) < MaxMsgs
          /\ consumed' = Append(consumed, Len(consumed) + 1)
          /\ pc' = callback(args.output)[1]
          /\ UNCHANGED exc
       \/ /\ pc' = "finished"
          /\ UNCHANGED <<consumed, exc>>
       \/ \E k \in RaisedKinds :
             /\ Raise(k, "iter")
             /\ UNCHANGED consumed
    /\ UNCHANGED <<logs, downloader, chat, output_file, sink, console, outcome>>
    /\ UNCHANGED cliVars
    /\ UNCHANGED infoVars

\* lines 231-234: print_formatted(message)
print_formatted ==
    /\ pc = "print"
    /\ \/ /\ ~args.quiet
          /\ \/ /\ console' = Append(console, Format(message))
                /\ pc' = StepAfter(1, args.output)
                /\ UNCHANGED exc
             \/ \E k \in RaisedKinds :
                   /\ Raise(k, "format")
                   /\ UNCHANGED console
       \/ /\ args.quiet
          /\ pc' = StepAfter(1, args.output)
          /\ UNCHANGED <<console, exc>>
    /\ UNCHANGED <<logs, downloader, chat, output_file, sink, consumed, outcome>>
    /\ UNCHANGED cliVars
    /\ UNCHANGED infoVars

\* line 245: output_file.write(message, flush=True)
WriteToFile ==
    /\ pc = "write"
    /\ \/ /\ sink' = write_to_file(sink, message)
          /\ pc' = "for"
          /\ UNCHANGED exc
       \/ \E k \in RaisedKinds :
             /\ Raise(k, "write")
             /\ UNCHANGED sink
    /\ UNCHANGED <<logs, downloader, chat, output_file, console, consumed, outcome>>
    /\ UNCHANGED cliVars
    /\ UNCHANGED infoVars

\* lines 254-255: the loop ended by exhaustion
Finished ==
    /\ pc = "finished"
    /\ logs' = Append(logs, LogEntry("info", "Finished retrieving chat{}.",
                                     IF chat.is_live THEN "" ELSE " replay"))
    /\ pc' = "finally"
    /\ UNCHANGED <<downloader, chat, output_file, sink, console, consumed, exc, outcome>>
    /\ UNCHANGED cliVars
    /\ UNCHANGED infoVars

\* lines 257-285: the first clause that matches the exception runs; with no
\* match the exception stays in flight
Except ==
    /\ pc = "except"
    /\ IF HandlerOf(exc.kind) # 0
       THEN /\ logs' = Append(logs, HandlerLog(HandlerOf(exc.kind), exc.kind))
            /\ exc' = [exc EXCEPT !.caught = TRUE]
       ELSE UNCHANGED <<logs, exc>>
    /\ pc' = "finally"
    /\ UNCHANGED <<downloader, chat, output_file, sink, console, consumed, outcome>>
    /\ UNCHANGED cliVars
    /\ UNCHANGED infoVars

\* lines 287-291: the finally block; main() then returns, or the exception
\* no clause caught leaves it
Finally ==
    /\ pc = "finally"
    /\ downloader' = [downloader EXCEPT !.closes = @ + 1]
    /\ sink' = IF closes_output_file(args.output, output_file)
               THEN SinkClose(sink) ELSE sink
    /\ outcome' = IF exc.kind # None /\ ~exc.caught THEN "raised" ELSE "returned"
    /\ pc' = "done"
    /\ UNCHANGED <<logs, chat, output_file, console, consumed, exc>>
    /\ UNCHANGED cliVars
    /\ UNCHANGED infoVars

Next ==
    \/ AddParams
    \/ ParseArgs
    \/ ParseReject
    \/ ResolveMode
    \/ Construct
    \/ GetChat
    \/ OpenSink
    \/ NextMessage
    \/ print_formatted
    \/ WriteToFile
    \/ Finished
    \/ Except
    \/ Finally

Spec == Init /\ [][Next]_vars

\* -------------------------------------------------------------- SpecMode
\* every namespace parse_args can hand to lines 193-205, and the combinations
\* of testing, verbose and quiet the parser would have rejected as well
RawModes ==
    [pause_on_debug : BOOLEAN, exit_on_debug : BOOLEAN, logging : Levels,
     testing : BOOLEAN, verbose : BOOLEAN, quiet : BOOLEAN, output : {None}]

InitMode ==
    /\ pc = "mode"
    /\ args \in RawModes
    /\ resolves = 0
    /\ logger = FreshLogger
    /\ chat_params = ChatParams(NoArgs)
    /\ get_chat_info =
          [pause_on_debug |-> [help |-> "pause", default |-> FALSE],
           exit_on_debug  |-> [help |-> "exit", default |-> FALSE],
           logging        |-> [help |-> "logging", default |-> "info"]]
    /\ flagdefs = NoFlags
    /\ argv = NoCommandLine
    /\ RunIdle
    /\ InfoIdle

\* lines 193-210 applied to the namespace as it stands
ResolveAgain ==
    /\ pc = "mode"
    /\ resolves < MaxResolves
    /\ args' = ResolveArgs(args)
    /\ logger' = ConfigureLogger(logger, ResolveArgs(args))
    /\ chat_params' = ChatParams(ResolveArgs(args))
    /\ resolves' = resolves + 1
    /\ UNCHANGED <<pc, get_chat_info, flagdefs, argv>>
    /\ UNCHANGED runVars
    /\ UNCHANGED infoVars

NextMode == ResolveAgain

SpecMode == InitMode /\ [][NextMode]_vars

\* -------------------------------------------------------------- SpecInfo
\* parameter names, as indexes
ParamNames == 1..MaxParams
\* the default values a parameter declares
DefaultValues == {"d0", "d1"}
\* the descriptions a docstring entry carries
Descriptions == {"", "text"}

\* the functions from a subset of S to T
PartialFunctions(S, T) == UNION {[D -> T] : D \in SUBSET S}

InitInfo ==
    /\ pc = "get_info"
    /\ \E P \in SUBSET ParamNames :
          \E d \in PartialFunctions(P, DefaultValues) :
             function = [params |-> P, defaults |-> d]
    /\ docstring \in PartialFunctions(ParamNames, Descriptions)
    /\ info = <<>>
    /\ get_chat_info =
          [pause_on_debug |-> [help |-> "pause", default |-> FALSE],
           exit_on_debug  |-> [help |-> "exit", default |-> FALSE],
           logging        |-> [help |-> "logging", default |-> "info"]]
    /\ flagdefs = NoFlags
    /\ argv = NoCommandLine
    /\ args = NoArgs
    /\ resolves = 0
    /\ logger = FreshLogger
    /\ chat_params = ChatParams(NoArgs)
    /\ RunIdle

\* lines 68-69: get_info(function)
GetInfo ==
    /\ pc = "get_info"
    /\ info' = get_info(function.defaults, docstring)
    /\ pc' = "got_info"
    /\ UNCHANGED <<function, docstring>>
    /\ UNCHANGED cliVars
    /\ UNCHANGED runVars

NextInfo == GetInfo

SpecInfo == InitInfo /\ [][NextInfo]_vars

\* ================================================================ claims
\* how many operations named o the sink has seen
CountOps(o) == Cardinality({i \in 1..Len(sink.ops) : sink.ops[i].op = o})

\* the items of the sink's write operations, in order
WrittenItems ==
    LET w == SelectSeq(sink.ops, LAMBDA x : x.op = "write")
    IN  [i \in 1..Len(w) |-> w[i].item]

\* main() got past argument parsing and has ended
RunEnded == pc = "done" /\ outcome \in {"returned", "raised"}

\* the release of the session and of the sink, counted at the end of a run
CleanupRanOnce ==
    /\ downloader.closes = 1
    /\ CountOps("close") = (IF CountOps("open") > 0 THEN 1 ELSE 0)

StreamEnded ==
    /\ pc \in {"finally", "done"}
    /\ outcome # "exit"
    /\ exc.kind = None \/ exc.at = "iter"

\* C2: when the stream has yielded m1..mk and then is exhausted or raises,
\* the console has received the formatted text of m1..mk in order exactly when
\* quiet is not set and nothing otherwise, the durable sink has been written
\* m1..mk in order exactly when an output destination (a non-empty --output)
\* was given, and without one no sink is ever opened.
C2_SinksReceiveEveryMessage ==
    /\ ~Truthy(args.output) => (sink = FreshSink /\ output_file = None)
    /\ StreamEnded =>
          /\ consumed = [i \in 1..Len(consumed) |-> i]
          /\ console = IF args.quiet THEN <<>>
                       ELSE [i \in 1..Len(consumed) |-> Format(consumed[i])]
          /\ Truthy(args.output) =>
                /\ output_file # None
                /\ WrittenItems = consumed

\* C2's case: the stream raised after two messages with both sinks active
C2_Witness ==
    /\ RunEnded
    /\ exc.kind = "NoContinuation" /\ exc.at = "iter"
    /\ Len(consumed) >= 2
    /\ ~args.quiet
    /\ Len(console) >= 2
    /\ Len(WrittenItems) >= 2

\* C3: the sink's operations are one open, then one flushed write per
\* message, then one close, nothing after the close; each message is persisted
\* before the next is taken from the stream, so after K completed writes the
\* file holds exactly the records of the first K messages.
C3_SinkOrderAndFlush ==
    /\ \A i \in 1..Len(sink.ops) :
          /\ (sink.ops[i].op = "open") <=> (i = 1)
          /\ (sink.ops[i].op = "close") => (i = Len(sink.ops) /\ pc = "done")
    /\ sink.buffered = <<>>
    /\ Len(WrittenItems) <= Len(consumed)
    /\ sink.persisted = [i \in 1..Len(WrittenItems) |-> Record(consumed[i])]
    /\ output_file # None =>
          /\ Len(consumed) <= Len(WrittenItems) + 1
          /\ pc = "for" => WrittenItems = consumed
          /\ RunEnded => sink.ops[Len(sink.ops)].op = "close"

\* C3's case: the second message is being handled and the first is on file
C3_Witness ==
    /\ pc = "write"
    /\ Len(consumed) = 2
    /\ sink.persisted = <<Record(1)>>

\* the texts of the lines the except clauses log
FailureTexts == {"{}", "Unable to establish a connection. {}", "Keyboard Interrupt"}

\* the lines of the log written by an except clause
FailureLines == SelectSeq(logs, LAMBDA l : l.msg[1] \in FailureTexts)

\* the kinds of the taxonomy: every kind an except clause names
ClassifiedKinds == RaisedKinds \ {"ValueError"}

\* the line the taxonomy gives for a failure of kind k
TaxonomyLine(k) ==
    [level |-> IF k \in {"NoContinuation", "TimeoutException"} THEN "info" ELSE "error",
     msg   |-> IF k = "ConnectionError" THEN <<"Unable to establish a connection. {}", k>>
               ELSE IF k = "KeyboardInterrupt" THEN <<"Keyboard Interrupt", "">>
               ELSE <<"{}", k>>]

\* C4: a failure of a kind of the taxonomy raised by get_chat or by the
\* iteration of the stream ends the loop (main() never returns to the loop or
\* to get_chat), is logged by exactly one call of log at the severity and with
\* the text the taxonomy gives, and main() returns without raising.
C4_ClassifiedFailureLoggedOnce ==
    (exc.kind \in ClassifiedKinds /\ exc.at \in {"get_chat", "iter"}) =>
        /\ pc \in {"except", "finally", "done"}
        /\ pc = "except" => FailureLines = <<>>
        /\ pc \in {"finally", "done"} =>
              /\ FailureLines = <<TaxonomyLine(exc.kind)>>
              /\ logs[Len(logs)] = TaxonomyLine(exc.kind)
        /\ pc = "done" => outcome = "returned"

\* C4's case: a connection failure during the iteration, after a message
C4_Witness ==
    /\ RunEnded
    /\ exc.kind = "ConnectionError" /\ exc.at = "iter"
    /\ Len(consumed) >= 1
    /\ outcome = "returned"

\* C5: an exception of no kind of the taxonomy raised inside the try block
\* (by get_chat, by opening or writing the sink, by formatting, by the
\* iteration) leaves main() after the finally block has run, no except
\* clause logs a line for it, and the Finished line is not logged.
C5_UnclassifiedPropagates ==
    (exc.kind \notin ClassifiedKinds \cup {None}
        /\ exc.at \in {"get_chat", "open", "write", "format", "iter"}) =>
        /\ ~exc.caught
        /\ pc \in {"except", "finally", "done"}
        /\ FailureLines = <<>>
        /\ \A i \in 1..Len(logs) : logs[i].msg[1] # "Finished retrieving chat{}."
        /\ pc = "done" => (outcome = "raised" /\ downloader.closes = 1)
        /\ pc # "done" => outcome = "running"

\* C5's case: writing the sink raised an unclassified exception
C5_Witness ==
    /\ RunEnded
    /\ exc.kind = "ValueError" /\ exc.at = "write"
    /\ outcome = "raised"
    /\ CountOps("close") = 1

\* C6: a failure of a kind of the taxonomy at either acquisition step (the
\* construction of the downloader or get_chat) skips the iteration, is logged
\* at its severity, cleanup runs and main() returns without raising.
C6_AcquisitionFailureCaught ==
    (RunEnded /\ exc.kind \in ClassifiedKinds /\ exc.at \in {"construct", "get_chat"}) =>
        /\ consumed = <<>>
        /\ WrittenItems = <<>>
        /\ outcome = "returned"
        /\ FailureLines = <<TaxonomyLine(exc.kind)>>

\* C8: the value parse_args stores for a boolean flag is the negation of the
\* introspected default when the flag is present, and the default when absent.
C8_FlagFlipsIntrospectedDefault ==
    (pc = "resolve") =>
        \A key \in {"pause_on_debug", "exit_on_debug"} :
            args[key] = (IF argv[key] THEN ~get_chat_info[key].default
                         ELSE get_chat_info[key].default)

\* C10: the parameters forwarded to get_chat never have pause_on_debug and
\* exit_on_debug both true; stated here for the runs in which get_chat
\* declares both of them off by default.
C10_DebugActionsExclusive ==
    (/\ pc \notin {"add_params", "parse_args", "resolve"}
     /\ outcome # "exit"
     /\ ~get_chat_info.pause_on_debug.default
     /\ ~get_chat_info.exit_on_debug.default) =>
        ~(chat_params.pause_on_debug /\ chat_params.exit_on_debug)

\* the mode-resolution block has run on the namespace
Resolved == pc = "mode" /\ resolves >= 1

\* C7: mode resolution accepts every combination of testing, verbose, quiet
\* and the logging level and yields a valid mode; testing gives logging debug
\* and pause_on_debug true, verbose gives logging debug, quiet disables the
\* logger whatever the level, all of them together when several are set; and
\* resolving the resolved mode changes nothing.
C7_ModeResolution ==
    /\ (pc = "mode" /\ resolves = 0) => ENABLED ResolveAgain
    /\ Resolved =>
          /\ args \in RawModes
          /\ args.testing => (args.logging = "debug" /\ args.pause_on_debug)
          /\ args.verbose => args.logging = "debug"
          /\ args.quiet => logger.disabled
          /\ (~args.quiet /\ args.logging # "none") =>
                (~logger.disabled /\ logger.level = args.logging)
          /\ chat_params = ChatParams(args)
          /\ ResolveArgs(args) = args
          /\ ConfigureLogger(logger, ResolveArgs(args)) = logger

\* C7's case: testing and quiet together, resolved twice
C7_Witness ==
    /\ pc = "mode"
    /\ resolves >= 2
    /\ args.testing /\ args.quiet /\ ~args.verbose
    /\ args.logging = "debug" /\ args.pause_on_debug
    /\ logger.disabled

\* C9: get_info returns one entry per parameter of the function: the default
\* is the function's own, the help is the docstring's description, and empty
\* for a parameter the docstring does not document.
C9_OneEntryPerParameter ==
    (pc = "got_info" /\ DOMAIN docstring \subseteq function.params) =>
        /\ DOMAIN info = function.params
        /\ \A n \in function.params :
              /\ info[n].default = (IF n \in DOMAIN function.defaults
                                    THEN function.defaults[n] ELSE None)
              /\ info[n].help = (IF n \in DOMAIN docstring THEN docstring[n] ELSE "")

====
